---- MODULE Spec2Model ----
(***************************************************************************)
(* Model of src/struct.go (package zip): the FileHeader record, the MS-DOS *)
(* timestamp codec, the Unix / MS-DOS permission codec, the ZIP64 size     *)
(* rule and the os.FileInfo adapter.                                       *)
(*                                                                         *)
(* Representation.  TLC's integers are 32-bit signed, so every Go value    *)
(* that is used bitwise or that may exceed 2^31-1 (os.FileMode, uint32,    *)
(* uint64, int64 and the uint16 CreatorVersion) is the set of the          *)
(* positions of its 1 bits: & is \cap, | is \cup, &^ is \, and a shift     *)
(* moves the positions and drops those that leave the word.  The two       *)
(* packed uint16 timestamp fields are naturals below 2^16, since the code  *)
(* builds them by addition.  A time.Time is the instant (day number since  *)
(* 1970-01-01, second of that day, nanosecond) plus the offset of its      *)
(* location in seconds.  A string is the sequence of its characters.       *)
(***************************************************************************)
EXTENDS Integers, Sequences, FiniteSets, TLC

VARIABLES
    fh,        \* the FileHeader the operations act on
    input,     \* the os.FileInfo the caller holds: [Name, Size, ModTime, Mode]
    ModeType,  \* os.ModeType, as the os package of the build defines it
    op,        \* the last operation applied
    ret,       \* <<its result>>, or <<>> when it returns nothing
    fh0,       \* the header as it was constructed or parsed
    lastMode,  \* <<the argument of the last SetMode>>, or <<>>
    lastTime,  \* <<the argument of the last SetModTime>>, or <<>>
    lastInfo,  \* <<the argument of the last FileInfoHeader>>, or <<>>
    calls      \* the number of mutating calls made so far

vars == <<fh, input, ModeType, op, ret, fh0, lastMode, lastTime, lastInfo, calls>>

(***************************************************************************)
(* Words as sets of bit positions.                                         *)
(***************************************************************************)
Pow2(n) == 2 ^ n

\* the word whose value is the small natural n (n < 2^31)
Bits(n) == {i \in 0..30 : (n \div Pow2(i)) % 2 = 1}

\* x << k in a word of width w
Shl(x, k, w) == {i + k : i \in x} \cap (0..(w - 1))

\* x >> k
Shr(x, k) == {i - k : i \in {j \in x : j >= k}}

\* unsigned x > y
Gt(x, y) == \E i \in x \ y : \A j \in y \ x : j < i

\* conversion to a narrower unsigned type keeps the low w bits
Trunc(x, w) == x \cap (0..(w - 1))

(***************************************************************************)
(* struct.go constants.                                                    *)
(***************************************************************************)
creatorFAT == 0
creatorUnix == 3
creatorNTFS == 11
creatorVFAT == 14
creatorMacOSX == 19

uint32max == 0..31

sIFMT == Bits(61440)
sIFSOCK == Bits(49152)
sIFLNK == Bits(40960)
sIFREG == Bits(32768)
sIFBLK == Bits(24576)
sIFDIR == Bits(16384)
sIFCHR == Bits(8192)
sIFIFO == Bits(4096)
sISUID == Bits(2048)
sISGID == Bits(1024)
sISVTX == Bits(512)

msdosDir == Bits(16)
msdosReadOnly == Bits(1)

(***************************************************************************)
(* os.FileMode bits, as the os package defines them.                       *)
(***************************************************************************)
ModeDir == {31}
ModeAppend == {30}
ModeExclusive == {29}
ModeTemporary == {28}
ModeSymlink == {27}
ModeDevice == {26}
ModeNamedPipe == {25}
ModeSocket == {24}
ModeSetuid == {23}
ModeSetgid == {22}
ModeCharDevice == {21}
ModeSticky == {20}
ModeIrregular == {19}
\* os.ModeType is not the same mask in every Go release: up to Go 1.10 it is
\* the first value, and since Go 1.12 it also holds ModeCharDevice (and
\* ModeIrregular).  struct.go fixes no release, so the build decides.
ModeTypeGo110 == ModeDir \cup ModeSymlink \cup ModeNamedPipe \cup ModeSocket
                 \cup ModeDevice
ModeTypeGo112 == ModeDir \cup ModeSymlink \cup ModeNamedPipe \cup ModeSocket
                 \cup ModeDevice \cup ModeCharDevice \cup ModeIrregular
GoBuilds == {ModeTypeGo110, ModeTypeGo112}
ModePerm == Bits(511)

(***************************************************************************)
(* package time: the calendar arithmetic behind time.Date and the field    *)
(* accessors of a time.Time.                                               *)
(***************************************************************************)
secondsPerDay == 86400

isLeap(y) == y % 4 = 0 /\ (y % 100 # 0 \/ y % 400 = 0)

daysBefore == <<0, 31, 59, 90, 120, 151, 181, 212, 243, 273, 304, 334, 365>>

\* leap days in the years 1 .. y-1
LeapsBefore(y) == ((y - 1) \div 4) - ((y - 1) \div 100) + ((y - 1) \div 400)

\* days from 1970-01-01 to January 1 of year y
daysSinceEpoch(y) == 365 * (y - 1970) + LeapsBefore(y) - LeapsBefore(1970)

\* time.Date(year, month, day, hour, min, sec, 0, time.UTC): out-of-range
\* fields are normalised by carrying into the next larger unit
Date(year, month, day, hour, min, sec) ==
    LET m0 == month - 1
        y == year + (m0 \div 12)
        m == m0 % 12
        secs == hour * 3600 + min * 60 + sec
        d == daysSinceEpoch(y) + daysBefore[m + 1]
             + (IF isLeap(y) /\ m >= 2 THEN 1 ELSE 0) + (day - 1)
    IN [day |-> d + (secs \div secondsPerDay),
        sod |-> secs % secondsPerDay,
        nsec |-> 0,
        off |-> 0]

\* t.In(time.UTC): the same instant, in the UTC location
InUTC(t) == [t EXCEPT !.off = 0]

\* the day number and second of day of t's wall clock in its own location
WallDay(t) == t.day + ((t.sod + t.off) \div secondsPerDay)
WallSod(t) == (t.sod + t.off) % secondsPerDay

\* the civil date of day number n, as <<year, month, day>>
Civil(n) ==
    LET z == n + 719468
        era == z \div 146097
        doe == z % 146097
        yoe == (doe - (doe \div 1460) + (doe \div 36524) - (doe \div 146096)) \div 365
        doy == doe - (365 * yoe + (yoe \div 4) - (yoe \div 100))
        mp == (5 * doy + 2) \div 153
        d == doy - ((153 * mp + 2) \div 5) + 1
        m == IF mp < 10 THEN mp + 3 ELSE mp - 9
        y == yoe + era * 400 + (IF m <= 2 THEN 1 ELSE 0)
    IN <<y, m, d>>

Year(t) == Civil(WallDay(t))[1]
Month(t) == Civil(WallDay(t))[2]
Day(t) == Civil(WallDay(t))[3]
Hour(t) == WallSod(t) \div 3600
Minute(t) == (WallSod(t) % 3600) \div 60
Second(t) == WallSod(t) % 60

\* t1.Equal(t2): the same instant
TimeEqual(t1, t2) == t1.day = t2.day /\ t1.sod = t2.sod /\ t1.nsec = t2.nsec

(***************************************************************************)
(* The MS-DOS timestamp codec.                                             *)
(***************************************************************************)
\* msDosTimeToTime with the year taken from bits 8-15 of the date
msDosTimeToTime_YearShift8(dosDate, dosTime) ==
    Date(((dosDate \div Pow2(8)) + 1980) % 65536,
         (dosDate \div Pow2(5)) % 16,
         dosDate % 32,
         dosTime \div Pow2(11),
         (dosTime \div Pow2(5)) % 64,
         (((dosTime % 32) * 2) % 65536))

msDosTimeToTime(dosDate, dosTime) ==
    Date(((dosDate \div Pow2(9)) + 1980) % 65536,
         (dosDate \div Pow2(5)) % 16,
         dosDate % 32,
         dosTime \div Pow2(11),
         (dosTime \div Pow2(5)) % 64,
         (((dosTime % 32) * 2) % 65536))

\* timeToMsDosTime with the second stored whole instead of halved
timeToMsDosTime_WholeSecond(t0) ==
    LET t == InUTC(t0)
    IN [fDate |-> (Day(t) + Month(t) * Pow2(5) + (Year(t) - 1980) * Pow2(9)) % 65536,
        fTime |-> (Second(t) + Minute(t) * Pow2(5) + Hour(t) * Pow2(11)) % 65536]

timeToMsDosTime(t0) ==
    LET t == InUTC(t0)
    IN [fDate |-> (Day(t) + Month(t) * Pow2(5) + (Year(t) - 1980) * Pow2(9)) % 65536,
        fTime |-> (Second(t) \div 2 + Minute(t) * Pow2(5) + Hour(t) * Pow2(11)) % 65536]

(***************************************************************************)
(* FileHeader.                                                             *)
(***************************************************************************)
\* the zero FileHeader with the given name and 64-bit uncompressed size
NewFileHeader(name, size64) ==
    [Name |-> name,
     CreatorVersion |-> {},
     ReaderVersion |-> 0,
     Flags |-> 0,
     Method |-> 0,
     ModifiedTime |-> 0,
     ModifiedDate |-> 0,
     CRC32 |-> {},
     CompressedSize |-> {},
     UncompressedSize |-> {},
     CompressedSize64 |-> {},
     UncompressedSize64 |-> size64,
     Extra |-> <<>>,
     ExternalAttrs |-> {},
     Comment |-> <<>>,
     DeferAuth |-> FALSE]

ModTime(h) == msDosTimeToTime(h.ModifiedDate, h.ModifiedTime)

SetModTime(h, t) ==
    LET p == timeToMsDosTime(t)
    IN [h EXCEPT !.ModifiedDate = p.fDate, !.ModifiedTime = p.fTime]

(***************************************************************************)
(* The permission codec.                                                   *)
(***************************************************************************)
\* msdosModeToFileMode with read-only clearing the owner-write bit alone
msdosModeToFileMode_OwnerOnly(m) ==
    LET base == IF m \cap msdosDir # {} THEN ModeDir \cup Bits(511) ELSE Bits(438)
    IN IF m \cap msdosReadOnly # {} THEN base \ Bits(128) ELSE base

msdosModeToFileMode(m) ==
    LET base == IF m \cap msdosDir # {} THEN ModeDir \cup Bits(511) ELSE Bits(438)
    IN IF m \cap msdosReadOnly # {} THEN base \ Bits(146) ELSE base

fileModeToUnixMode(mode) ==
    LET ty == mode \cap ModeType
        m0 == IF ty = ModeDir THEN sIFDIR
              ELSE IF ty = ModeSymlink THEN sIFLNK
              ELSE IF ty = ModeNamedPipe THEN sIFIFO
              ELSE IF ty = ModeSocket THEN sIFSOCK
              ELSE IF ty = ModeDevice
                   THEN (IF mode \cap ModeCharDevice # {} THEN sIFCHR ELSE sIFBLK)
              ELSE sIFREG
        m1 == IF mode \cap ModeSetuid # {} THEN m0 \cup sISUID ELSE m0
        m2 == IF mode \cap ModeSetgid # {} THEN m1 \cup sISGID ELSE m1
        m3 == IF mode \cap ModeSticky # {} THEN m2 \cup sISVTX ELSE m2
    IN m3 \cup Trunc(mode \cap Bits(511), 32)

unixModeToFileMode(m) ==
    LET mode0 == m \cap Bits(511)
        fmt == m \cap sIFMT
        mode1 == IF fmt = sIFBLK THEN mode0 \cup ModeDevice
                 ELSE IF fmt = sIFCHR THEN mode0 \cup ModeDevice \cup ModeCharDevice
                 ELSE IF fmt = sIFDIR THEN mode0 \cup ModeDir
                 ELSE IF fmt = sIFIFO THEN mode0 \cup ModeNamedPipe
                 ELSE IF fmt = sIFLNK THEN mode0 \cup ModeSymlink
                 ELSE IF fmt = sIFREG THEN mode0
                 ELSE IF fmt = sIFSOCK THEN mode0 \cup ModeSocket
                 ELSE mode0
        mode2 == IF m \cap sISGID # {} THEN mode1 \cup ModeSetgid ELSE mode1
        mode3 == IF m \cap sISUID # {} THEN mode2 \cup ModeSetuid ELSE mode2
        mode4 == IF m \cap sISVTX # {} THEN mode3 \cup ModeSticky ELSE mode3
    IN mode4

\* fh.Name ends in '/'
EndsInSlash(name) == Len(name) > 0 /\ name[Len(name)] = "/"

\* Mode without the rule for names that end in '/'
Mode_NoNameRule(h) ==
    LET tag == Shr(h.CreatorVersion, 8)
    IN IF tag = Bits(creatorUnix) \/ tag = Bits(creatorMacOSX)
       THEN unixModeToFileMode(Shr(h.ExternalAttrs, 16))
       ELSE IF tag = Bits(creatorNTFS) \/ tag = Bits(creatorVFAT)
               \/ tag = Bits(creatorFAT)
       THEN msdosModeToFileMode(h.ExternalAttrs)
       ELSE {}

Mode(h) ==
    LET tag == Shr(h.CreatorVersion, 8)
        mode == IF tag = Bits(creatorUnix) \/ tag = Bits(creatorMacOSX)
                THEN unixModeToFileMode(Shr(h.ExternalAttrs, 16))
                ELSE IF tag = Bits(creatorNTFS) \/ tag = Bits(creatorVFAT)
                        \/ tag = Bits(creatorFAT)
                THEN msdosModeToFileMode(h.ExternalAttrs)
                ELSE {}
    IN IF EndsInSlash(h.Name) THEN mode \cup ModeDir ELSE mode

\* SetMode with the read-only attribute derived from the owner-read bit
SetMode_OwnerRead(h, mode) ==
    LET cv == (h.CreatorVersion \cap Bits(255)) \cup Shl(Bits(creatorUnix), 8, 16)
        a0 == Shl(fileModeToUnixMode(mode), 16, 32)
        a1 == IF mode \cap ModeDir # {} THEN a0 \cup msdosDir ELSE a0
        a2 == IF mode \cap Bits(256) = {} THEN a1 \cup msdosReadOnly ELSE a1
    IN [h EXCEPT !.CreatorVersion = cv, !.ExternalAttrs = a2]

\* SetMode that adds the new bits to the attributes already held
SetMode_KeepAttrs(h, mode) ==
    LET cv == (h.CreatorVersion \cap Bits(255)) \cup Shl(Bits(creatorUnix), 8, 16)
        a0 == h.ExternalAttrs \cup Shl(fileModeToUnixMode(mode), 16, 32)
        a1 == IF mode \cap ModeDir # {} THEN a0 \cup msdosDir ELSE a0
        a2 == IF mode \cap Bits(128) = {} THEN a1 \cup msdosReadOnly ELSE a1
    IN [h EXCEPT !.CreatorVersion = cv, !.ExternalAttrs = a2]

SetMode(h, mode) ==
    LET cv == (h.CreatorVersion \cap Bits(255)) \cup Shl(Bits(creatorUnix), 8, 16)
        a0 == Shl(fileModeToUnixMode(mode), 16, 32)
        a1 == IF mode \cap ModeDir # {} THEN a0 \cup msdosDir ELSE a0
        a2 == IF mode \cap Bits(128) = {} THEN a1 \cup msdosReadOnly ELSE a1
    IN [h EXCEPT !.CreatorVersion = cv, !.ExternalAttrs = a2]

\* isZip64 with the size limit itself counted as too large
isZip64_AtLeast(h) ==
    \/ Gt(h.CompressedSize64, uint32max) \/ h.CompressedSize64 = uint32max
    \/ Gt(h.UncompressedSize64, uint32max) \/ h.UncompressedSize64 = uint32max

isZip64(h) == Gt(h.CompressedSize64, uint32max) \/ Gt(h.UncompressedSize64, uint32max)

(***************************************************************************)
(* The os.FileInfo adapter.                                                *)
(***************************************************************************)
RECURSIVE StripSlashes(_)
\* the name without its trailing slashes
StripSlashes(s) == IF EndsInSlash(s) THEN StripSlashes(SubSeq(s, 1, Len(s) - 1)) ELSE s

\* path.Base
Base(name) ==
    IF name = <<>> THEN <<".">>
    ELSE LET s == StripSlashes(name)
             cut == {i \in 1..Len(s) : s[i] = "/"}
             last == IF cut = {} THEN 0 ELSE CHOOSE i \in cut : \A j \in cut : j <= i
             b == SubSeq(s, last + 1, Len(s))
         IN IF b = <<>> THEN <<"/">> ELSE b

\* headerFileInfo.Size
Size(h) == IF Gt(h.UncompressedSize64, {}) THEN h.UncompressedSize64
           ELSE h.UncompressedSize

\* headerFileInfo.IsDir, through os.FileMode.IsDir
IsDir(h) == Mode(h) \cap ModeDir # {}

\* the os.FileInfo that fh.FileInfo() returns, as the values of its methods
FileInfo(h) ==
    [Name |-> Base(h.Name),
     Size |-> Size(h),
     IsDir |-> IsDir(h),
     ModTime |-> ModTime(h),
     Mode |-> Mode(h)]

\* FileInfoHeader with the 32-bit size always converted, never saturated
FileInfoHeader_Wrap(fi) ==
    LET h0 == NewFileHeader(fi.Name, Trunc(fi.Size, 64))
        h1 == SetModTime(h0, fi.ModTime)
        h2 == SetMode(h1, fi.Mode)
    IN [h2 EXCEPT !.UncompressedSize = Trunc(h2.UncompressedSize64, 32)]

\* the header FileInfoHeader builds from fi
FileInfoHeader(fi) ==
    LET h0 == NewFileHeader(fi.Name, Trunc(fi.Size, 64))
        h1 == SetModTime(h0, fi.ModTime)
        h2 == SetMode(h1, fi.Mode)
    IN IF Gt(h2.UncompressedSize64, uint32max)
       THEN [h2 EXCEPT !.UncompressedSize = uint32max]
       ELSE [h2 EXCEPT !.UncompressedSize = Trunc(h2.UncompressedSize64, 32)]

(***************************************************************************)
(* Operations on the header, one action per exported call.                 *)
(***************************************************************************)
DoSetModTime(t) ==
    /\ fh' = SetModTime(fh, t)
    /\ op' = "SetModTime"
    /\ ret' = <<>>
    /\ lastTime' = <<t>>
    /\ calls' = calls + 1
    /\ UNCHANGED <<input, ModeType, fh0, lastMode, lastInfo>>

DoSetMode(mode) ==
    /\ fh' = SetMode(fh, mode)
    /\ op' = "SetMode"
    /\ ret' = <<>>
    /\ lastMode' = <<mode>>
    /\ calls' = calls + 1
    /\ UNCHANGED <<input, ModeType, fh0, lastTime, lastInfo>>

DoModTime ==
    /\ op' = "ModTime"
    /\ ret' = <<ModTime(fh)>>
    /\ UNCHANGED <<fh, input, ModeType, fh0, lastMode, lastTime, lastInfo, calls>>

DoMode ==
    /\ op' = "Mode"
    /\ ret' = <<Mode(fh)>>
    /\ UNCHANGED <<fh, input, ModeType, fh0, lastMode, lastTime, lastInfo, calls>>

DoIsZip64 ==
    /\ op' = "isZip64"
    /\ ret' = <<isZip64(fh)>>
    /\ UNCHANGED <<fh, input, ModeType, fh0, lastMode, lastTime, lastInfo, calls>>

DoFileInfo ==
    /\ op' = "FileInfo"
    /\ ret' = <<FileInfo(fh)>>
    /\ UNCHANGED <<fh, input, ModeType, fh0, lastMode, lastTime, lastInfo, calls>>

\* FileInfoHeader returns (fh, nil): the header replaces the one held, and
\* the error is the result
DoFileInfoHeader(fi) ==
    /\ fh' = FileInfoHeader(fi)
    /\ op' = "FileInfoHeader"
    /\ ret' = <<"nil">>
    /\ fh0' = NewFileHeader(fi.Name, Trunc(fi.Size, 64))
    /\ lastInfo' = <<fi>>
    /\ lastTime' = <<fi.ModTime>>
    /\ lastMode' = <<fi.Mode>>
    /\ calls' = calls + 1
    /\ UNCHANGED <<input, ModeType>>

(***************************************************************************)
(* Timestamp codec: the caller's time is drawn at Init, SetModTime packs   *)
(* it and ModTime unpacks what the header holds.                           *)
(***************************************************************************)
\* years before 1980 and after 2107 that the inputs also cover
ExtraYears == 1

MinYear == 1980
MaxYear == MinYear + 127

daysIn(y, m) == daysBefore[m + 1] - daysBefore[m]
                + (IF m = 2 /\ isLeap(y) THEN 1 ELSE 0)

YearInputs == (MinYear - ExtraYears)..(MaxYear + ExtraYears)
DayInputs == {1, 28, 29, 30, 31}
ClockInputs == {<<0, 0, 0>>, <<10, 48, 0>>, <<23, 59, 58>>, <<12, 30, 31>>}

\* the calendar dates among the inputs, as <<year, month, day>>
DateInputs ==
    {q \in YearInputs \X (1..12) \X DayInputs : q[3] <= daysIn(q[1], q[2])}

TimeInputs ==
    {Date(q[1], q[2], q[3], c[1], c[2], c[3]) : q \in DateInputs, c \in ClockInputs}

\* packed date and time fields as a reader may have parsed them: zero, the
\* fields 0x4A21 and 0x5600, and fields no calendar date packs to
PackedInputs == {<<0, 0>>, <<18977, 22016>>, <<65535, 65535>>, <<33, 0>>}

ParsedTimeHeader(p) ==
    [NewFileHeader(<<"a">>, {}) EXCEPT !.ModifiedDate = p[1], !.ModifiedTime = p[2]]

FileView(name, size, t, mode) ==
    [Name |-> name, Size |-> size, ModTime |-> t, Mode |-> mode]

InitTime ==
    /\ \E p \in PackedInputs : fh = ParsedTimeHeader(p)
    /\ \E t \in TimeInputs : input = FileView(<<"a">>, {}, t, Bits(420))
    /\ ModeType = ModeTypeGo112
    /\ op = "init"
    /\ ret = <<>>
    /\ fh0 = fh
    /\ lastMode = <<>>
    /\ lastTime = <<>>
    /\ lastInfo = <<>>
    /\ calls = 0

SetModTimeInput == calls = 0 /\ DoSetModTime(input.ModTime)

NextTime == SetModTimeInput \/ DoModTime

SpecTime == InitTime /\ [][NextTime]_vars

\* the calendar fields of t in UTC
Fields(t) == LET u == InUTC(t)
             IN <<Year(u), Month(u), Day(u), Hour(u), Minute(u), Second(u), u.nsec>>


(***************************************************************************)
(* Claims about the timestamp codec, checked under SpecTime.               *)
(***************************************************************************)
\* t is in UTC, has no sub-second part, an even second and a year in
\* [1980, 2107]
Representable(t) ==
    /\ t.off = 0
    /\ t.nsec = 0
    /\ Second(t) % 2 = 0
    /\ Year(t) >= MinYear
    /\ Year(t) <= MaxYear

\* C1: for every UTC timestamp t with zero sub-second part, an even second
\* and a year in [1980, 2107], ModTime after SetModTime(t), that is
\* msDosTimeToTime(timeToMsDosTime(t)), is t in every calendar field.
C1_RoundTrip ==
    (op = "ModTime" /\ lastTime # <<>> /\ Representable(lastTime[1]))
        => /\ Fields(ret[1]) = Fields(lastTime[1])
           /\ TimeEqual(ret[1], lastTime[1])

\* the last representable instant, 2107-12-31 23:59:58, has made the round trip
C1_Witness ==
    /\ op = "ModTime"
    /\ lastTime # <<>>
    /\ Representable(lastTime[1])
    /\ Fields(lastTime[1]) = <<2107, 12, 31, 23, 59, 58, 0>>
    /\ Fields(ret[1]) = <<2107, 12, 31, 23, 59, 58, 0>>

\* C7 as stated: the packed date 0x4A21 (18977) and time 0x5600 (22016)
\* decode to 2005-01-01 10:48:00 UTC, and that timestamp packs to them.
C7_Original ==
    /\ (op = "ModTime" /\ fh.ModifiedDate = 18977 /\ fh.ModifiedTime = 22016)
          => Fields(ret[1]) = <<2005, 1, 1, 10, 48, 0, 0>>
    /\ (op = "SetModTime" /\ Fields(lastTime[1]) = <<2005, 1, 1, 10, 48, 0, 0>>)
          => (fh.ModifiedDate = 18977 /\ fh.ModifiedTime = 22016)

\* C7, amended: the packed date 0x4A21 (18977) and time 0x5600 (22016)
\* decode to 2017-01-01 10:48:00 UTC, and that timestamp packs to exactly
\* these two values.
C7_Example ==
    /\ (op = "ModTime" /\ fh.ModifiedDate = 18977 /\ fh.ModifiedTime = 22016)
          => Fields(ret[1]) = <<2017, 1, 1, 10, 48, 0, 0>>
    /\ (op = "SetModTime" /\ Fields(lastTime[1]) = <<2017, 1, 1, 10, 48, 0, 0>>)
          => (fh.ModifiedDate = 18977 /\ fh.ModifiedTime = 22016)

\* a header parsed with the fields 0x4A21 and 0x5600 has been decoded
C7_Witness ==
    /\ op = "ModTime"
    /\ calls = 0
    /\ fh.ModifiedDate = 18977
    /\ fh.ModifiedTime = 22016
    /\ Fields(ret[1]) = <<2017, 1, 1, 10, 48, 0, 0>>


(***************************************************************************)
(* Permission codec, encode side: the caller's mode is drawn at Init,      *)
(* SetMode stores it and Mode reads the header back.                       *)
(***************************************************************************)
\* the seven entry types of a permission view, as os.FileMode type bits
TypeInputs == {{}, ModeDir, ModeSymlink, ModeNamedPipe, ModeSocket, ModeDevice,
               ModeDevice \cup ModeCharDevice}

\* the number of permission bits the inputs vary: owner, group and other rwx
PermBits == 9

SpecialInputs == SUBSET (ModeSetuid \cup ModeSetgid \cup ModeSticky)

\* a permission view: one entry type, permission bits, setuid/setgid/sticky
ViewInputs ==
    {ty \cup p \cup sp : ty \in TypeInputs, p \in SUBSET (0..(PermBits - 1)),
                         sp \in SpecialInputs}

\* modes that are no permission view: bits outside type and permission, and
\* type bits no file system reports together
OddModeInputs ==
    {ModeAppend \cup Bits(420), ModeTemporary \cup ModeDir \cup Bits(493),
     ModeExclusive, ModeDir \cup ModeSymlink \cup Bits(511), ModeCharDevice \cup Bits(384)}

ModeInputs == ViewInputs \cup OddModeInputs

IsView(mode) == mode \in ViewInputs

\* headers SetMode is applied to: a fresh file, a fresh directory name, and
\* a header parsed from an NTFS archive with every attribute bit set
ModeHeaders ==
    {NewFileHeader(<<"a">>, {}),
     NewFileHeader(<<"d", "/">>, {}),
     [NewFileHeader(<<"a", "/", "b">>, {}) EXCEPT
         !.CreatorVersion = Shl(Bits(creatorNTFS), 8, 16) \cup Bits(45),
         !.ExternalAttrs = 0..31]}

InitMode ==
    /\ fh \in ModeHeaders
    /\ \E m \in ModeInputs : input = FileView(fh.Name, {}, Date(2017, 1, 1, 10, 48, 0), m)
    /\ ModeType \in GoBuilds
    /\ op = "init"
    /\ ret = <<>>
    /\ fh0 = fh
    /\ lastMode = <<>>
    /\ lastTime = <<>>
    /\ lastInfo = <<>>
    /\ calls = 0

SetModeInput == calls = 0 /\ DoSetMode(input.Mode)

NextMode == SetModeInput \/ DoMode

SpecMode == InitMode /\ [][NextMode]_vars


(***************************************************************************)
(* Claims about SetMode, checked under SpecMode.                           *)
(***************************************************************************)
\* C2 as stated: for every permission view and a name that does not end in
\* '/', Mode() after SetMode(view) is exactly view.
C2_RoundTrip ==
    (op = "Mode" /\ lastMode # <<>> /\ IsView(lastMode[1]) /\ ~EndsInSlash(fh.Name))
        => ret[1] = lastMode[1]

\* C6: after SetMode(mode), bit 0x01 of ExternalAttrs is set iff mode lacks
\* owner-write (0o200), bit 0x10 is set iff mode has the directory bit, the
\* high 16 bits are the Unix mode word of mode, and no other bit of the low
\* 16 is set.
C6_DosAttrs ==
    op = "SetMode" =>
        LET m == lastMode[1]
            a == fh.ExternalAttrs
        IN /\ (0 \in a) <=> (7 \notin m)
           /\ (4 \in a) <=> (31 \in m)
           /\ Shr(a, 16) = fileModeToUnixMode(m)
           /\ a \cap (0..15) \subseteq {0, 4}
           /\ a \subseteq 0..31

\* SetMode has stored a directory that lacks owner-write: both DOS bits set
C6_Witness ==
    /\ op = "SetMode"
    /\ lastMode = <<ModeDir \cup Bits(365)>>
    /\ fh.ExternalAttrs \cap (0..15) = {0, 4}
    /\ Shr(fh.ExternalAttrs, 16) = sIFDIR \cup Bits(365)


(***************************************************************************)
(* Permission codec, decode side: a header as a reader parsed it, with any *)
(* platform tag and any attribute bits, is read through Mode and FileInfo. *)
(***************************************************************************)
\* the longest entry name among the parsed headers
MaxNameLen == 2

NameChars == {"a", "/"}

NameInputs == UNION {[1..n -> NameChars] : n \in 0..MaxNameLen}

\* high bytes of CreatorVersion: the five tags struct.go names and three it
\* does not
TagInputs == {creatorFAT, creatorUnix, creatorNTFS, creatorVFAT, creatorMacOSX,
              7, 10, 255}

CreatorVersionInputs ==
    {Shl(Bits(tag), 8, 16) \cup low : tag \in TagInputs, low \in {{}, Bits(45)}}

\* Unix mode words for the high half of ExternalAttrs: each type pattern,
\* patterns that are no type, and the special bits
UnixWordInputs ==
    {{}, sIFREG \cup Bits(420), sIFDIR \cup Bits(493), sIFLNK \cup Bits(511),
     sIFCHR \cup Bits(384), sIFBLK \cup Bits(432), sIFIFO \cup Bits(292),
     sIFSOCK \cup Bits(146), Bits(12288) \cup Bits(73), sIFMT,
     sIFREG \cup sISUID \cup sISGID \cup sISVTX, 0..15}

\* ExternalAttrs values: every combination of the DOS read-only, hidden,
\* directory and archive bits, bit 9 of the unused byte, and a Unix word
ExternalAttrsInputs ==
    {low \cup mid \cup Shl(w, 16, 32) :
        low \in SUBSET {0, 1, 4, 5}, mid \in {{}, {9}}, w \in UnixWordInputs}

InitAttrs ==
    /\ \E n \in NameInputs, cv \in CreatorVersionInputs, a \in ExternalAttrsInputs :
          fh = [NewFileHeader(n, {}) EXCEPT !.CreatorVersion = cv, !.ExternalAttrs = a]
    /\ input = FileView(<<"a">>, {}, Date(2017, 1, 1, 10, 48, 0), Bits(420))
    /\ ModeType = ModeTypeGo112
    /\ op = "init"
    /\ ret = <<>>
    /\ fh0 = fh
    /\ lastMode = <<>>
    /\ lastTime = <<>>
    /\ lastInfo = <<>>
    /\ calls = 0

NextAttrs == DoMode \/ DoFileInfo

SpecAttrs == InitAttrs /\ [][NextAttrs]_vars

\* the platform tag of the header held
Tag == Shr(fh.CreatorVersion, 8)

\* C5: for every header whose name is non-empty and ends in '/', whatever
\* its platform tag and ExternalAttrs, Mode() has directory type and IsDir()
\* is true.
C5_DirName ==
    /\ (op = "Mode" /\ EndsInSlash(fh.Name)) => 31 \in ret[1]
    /\ (op = "FileInfo" /\ EndsInSlash(fh.Name))
          => (ret[1].IsDir = TRUE /\ 31 \in ret[1].Mode)

\* a header with an unrecognised tag and Unix regular-file bits, named "a/",
\* reports a directory
C5_Witness ==
    /\ op = "FileInfo"
    /\ fh.Name = <<"a", "/">>
    /\ Tag = Bits(7)
    /\ Shr(fh.ExternalAttrs, 16) = sIFREG \cup Bits(420)
    /\ 4 \notin fh.ExternalAttrs
    /\ ret[1].IsDir = TRUE

\* C9: for FAT, NTFS and VFAT headers whose name does not end in '/',
\* Mode() is directory|0o777 when bit 0x10 of ExternalAttrs is set and
\* regular 0o666 otherwise, less the write bits 0o222 when bit 0x01 is set;
\* no other bit of ExternalAttrs matters.
C9_DosDecode ==
    (op = "Mode" /\ Tag \in {Bits(0), Bits(11), Bits(14)} /\ ~EndsInSlash(fh.Name))
        => ret[1] = IF 4 \in fh.ExternalAttrs
                    THEN (IF 0 \in fh.ExternalAttrs THEN {31} \cup Bits(365)
                                                    ELSE {31} \cup Bits(511))
                    ELSE (IF 0 \in fh.ExternalAttrs THEN Bits(292) ELSE Bits(438))

\* an NTFS header with the directory and read-only bits and every bit of the
\* high half set decodes to directory|0o555
C9_Witness ==
    /\ op = "Mode"
    /\ Tag = Bits(11)
    /\ ~EndsInSlash(fh.Name)
    /\ {0, 4} \subseteq fh.ExternalAttrs
    /\ Shr(fh.ExternalAttrs, 16) = 0..15
    /\ ret[1] = {31} \cup Bits(365)


(***************************************************************************)
(* The ZIP64 rule: a header with any sizes, as a reader parsed it, is      *)
(* asked isZip64.                                                          *)
(***************************************************************************)
\* 64-bit sizes around the 32-bit limit: 0, 1, 2^31-1, 2^31, 0xFFFFFFFE,
\* 0xFFFFFFFF, 0x100000000, 0x100000001, 0x1FFFFFFFF, 2^63 and 2^64-1
Uint64Inputs == {{}, {0}, 0..30, {31}, 1..31, 0..31, {32}, {0, 32}, 0..32, {63}, 0..63}

\* values of the legacy 32-bit size fields
Uint32Inputs == {{}, {0}, 0..31}

InitSize ==
    /\ \E c \in Uint64Inputs, u \in Uint64Inputs, c32 \in Uint32Inputs, u32 \in Uint32Inputs :
          fh = [NewFileHeader(<<"a">>, u) EXCEPT !.CompressedSize64 = c,
                   !.CompressedSize = c32, !.UncompressedSize = u32]
    /\ input = FileView(<<"a">>, {}, Date(2017, 1, 1, 10, 48, 0), Bits(420))
    /\ ModeType = ModeTypeGo112
    /\ op = "init"
    /\ ret = <<>>
    /\ fh0 = fh
    /\ lastMode = <<>>
    /\ lastTime = <<>>
    /\ lastInfo = <<>>
    /\ calls = 0

NextSize == DoIsZip64 \/ DoFileInfo

SpecSize == InitSize /\ [][NextSize]_vars

\* the 64-bit value x exceeds 0xFFFFFFFF: it has a bit above bit 31
Over32(x) == \E i \in x : i >= 32

\* C3: isZip64() is true iff CompressedSize64 > 0xFFFFFFFF or
\* UncompressedSize64 > 0xFFFFFFFF: false when both are exactly 0xFFFFFFFF,
\* true when either is 0x100000000, whatever the legacy 32-bit fields hold.
C3_IsZip64 ==
    op = "isZip64" =>
        /\ ret[1] = (Over32(fh.CompressedSize64) \/ Over32(fh.UncompressedSize64))
        /\ (fh.CompressedSize64 = 0..31 /\ fh.UncompressedSize64 = 0..31)
              => ret[1] = FALSE
        /\ (fh.CompressedSize64 = {32} \/ fh.UncompressedSize64 = {32})
              => ret[1] = TRUE

\* both sizes at exactly 0xFFFFFFFF, legacy fields all ones: not ZIP64
C3_Witness ==
    /\ op = "isZip64"
    /\ fh.CompressedSize64 = 0..31
    /\ fh.UncompressedSize64 = 0..31
    /\ fh.UncompressedSize = 0..31
    /\ ret[1] = FALSE


(***************************************************************************)
(* The os.FileInfo adapter: the caller's file view is drawn at Init,       *)
(* FileInfoHeader builds the header from it and FileInfo reads it back.    *)
(***************************************************************************)
\* byte sizes of files: 0, 1, 0xFFFFFFFE, 0xFFFFFFFF, 0x100000000,
\* 0x100000001 and 2^63-1
SizeInputs == {{}, {0}, 1..31, 0..31, {32}, {0, 32}, 0..62}

\* the instant t read in the location offset seconds east of UTC, with
\* nanosecond part ns
At(t, ns, offset) == [t EXCEPT !.nsec = ns, !.off = offset]

\* modification times: inside and around the range of the packed fields,
\* odd seconds, sub-second parts and locations other than UTC
ModTimeInputs ==
    {Date(1970, 1, 1, 0, 0, 0),
     Date(1979, 12, 31, 23, 59, 59),
     Date(1980, 1, 1, 0, 0, 0),
     At(Date(2017, 1, 1, 10, 48, 1), 999999999, 0),
     At(Date(2017, 1, 1, 10, 48, 0), 0, 19800),
     At(Date(2024, 2, 29, 23, 30, 31), 5, 0 - 18000),
     Date(2107, 12, 31, 23, 59, 59),
     Date(2108, 1, 1, 0, 0, 0)}

\* modes of files: each entry type with some permission bits, with no or
\* all special bits, and two with bits outside type and permission
FileModeInputs ==
    {ty \cup p \cup sp : ty \in TypeInputs, p \in {{}, Bits(420), Bits(365)},
                         sp \in {{}, ModeSetuid \cup ModeSetgid \cup ModeSticky}}
    \cup {ModeAppend \cup Bits(420), ModeTemporary \cup ModeDir \cup Bits(493)}

InitAdapter ==
    /\ fh = NewFileHeader(<<>>, {})
    /\ \E n \in NameInputs, s \in SizeInputs, t \in ModTimeInputs, m \in FileModeInputs :
          input = FileView(n, s, t, m)
    /\ ModeType \in GoBuilds
    /\ op = "init"
    /\ ret = <<>>
    /\ fh0 = fh
    /\ lastMode = <<>>
    /\ lastTime = <<>>
    /\ lastInfo = <<>>
    /\ calls = 0

FileInfoHeaderInput == calls = 0 /\ DoFileInfoHeader(input)

NextAdapter == FileInfoHeaderInput \/ DoFileInfo \/ DoIsZip64

SpecAdapter == InitAdapter /\ [][NextAdapter]_vars

\* t truncated down to 2-second resolution, in UTC
Truncate2s(t) == [day |-> t.day, sod |-> t.sod - (t.sod % 2), nsec |-> 0, off |-> 0]

\* the type and permission bits of a mode
TypeAndPerm(mode) ==
    mode \cap (ModeTypeGo112 \cup ModePerm \cup ModeSetuid \cup ModeSetgid \cup ModeSticky)

\* C4 as stated: for every file view v, FileInfoHeader(v).FileInfo() reports
\* v's name, v's size, v's type and permission bits, and v's modification
\* time truncated down to 2 seconds, in UTC.
C4_Adapter ==
    (op = "FileInfo" /\ lastInfo # <<>>) =>
        LET v == lastInfo[1]
            r == ret[1]
        IN /\ r.Name = v.Name
           /\ r.Size = v.Size
           /\ r.Mode = TypeAndPerm(v.Mode)
           /\ TimeEqual(r.ModTime, Truncate2s(v.ModTime))
           /\ r.ModTime.off = 0

\* C8: FileInfoHeader of a view of size s yields UncompressedSize64 = s and
\* UncompressedSize = s when s <= 0xFFFFFFFF, 0xFFFFFFFF when s is larger
\* (never s mod 2^32); so when isZip64() is true of the header, the legacy
\* field reads 0xFFFFFFFF.  The error returned is nil.
C8_Saturation ==
    /\ op = "FileInfoHeader" =>
          LET s == lastInfo[1].Size
          IN /\ fh.UncompressedSize64 = s
             /\ fh.UncompressedSize = (IF Over32(s) THEN 0..31 ELSE s)
             /\ ret = <<"nil">>
    /\ (op = "isZip64" /\ lastInfo # <<>> /\ ret[1] = TRUE)
          => (Over32(lastInfo[1].Size) /\ fh.UncompressedSize = 0..31)

\* a file of 0x100000001 bytes: the header is ZIP64 and its legacy size is
\* the sentinel, not 1
C8_Witness ==
    /\ op = "isZip64"
    /\ lastInfo # <<>>
    /\ lastInfo[1].Size = {0, 32}
    /\ ret[1] = TRUE
    /\ fh.UncompressedSize = 0..31
    /\ fh.UncompressedSize64 = {0, 32}


(***************************************************************************)
(* Sequences of SetMode and SetModTime calls on one header.                *)
(***************************************************************************)
\* the longest sequence of calls
MaxCalls == 3

\* headers as a reader parsed them, every field non-zero
SeqHeaders ==
    {[NewFileHeader(n, {0, 32}) EXCEPT
         !.CreatorVersion = cv, !.ExternalAttrs = a,
         !.ReaderVersion = 45, !.Flags = 1, !.Method = 8,
         !.ModifiedTime = 22016, !.ModifiedDate = 18977,
         !.CRC32 = {0, 31}, !.CompressedSize = 0..31, !.UncompressedSize = 0..31,
         !.CompressedSize64 = {33}, !.Extra = <<1, 0>>, !.Comment = <<"c">>,
         !.DeferAuth = TRUE] :
        n \in {<<"a">>, <<"d", "/">>},
        cv \in {Shl(Bits(creatorNTFS), 8, 16) \cup Bits(45),
                Shl(Bits(creatorUnix), 8, 16) \cup Bits(20), {}},
        a \in {{}, 0..31, {0, 4, 5}}}

SeqModes == {Bits(420), Bits(292), ModeDir \cup Bits(493), ModeDir \cup Bits(365),
             ModeSymlink \cup Bits(511), ModeDevice \cup ModeCharDevice \cup Bits(384),
             ModeSetuid \cup Bits(493), {}}

SeqTimes == {Date(2017, 1, 1, 10, 48, 0), Date(1980, 1, 1, 0, 0, 0),
             Date(2107, 12, 31, 23, 59, 59)}

InitSeq ==
    /\ fh \in SeqHeaders
    /\ input = FileView(fh.Name, {}, Date(2017, 1, 1, 10, 48, 0), Bits(420))
    /\ ModeType \in GoBuilds
    /\ op = "init"
    /\ ret = <<>>
    /\ fh0 = fh
    /\ lastMode = <<>>
    /\ lastTime = <<>>
    /\ lastInfo = <<>>
    /\ calls = 0

SetModeAny == calls < MaxCalls /\ \E m \in SeqModes : DoSetMode(m)

SetModTimeAny == calls < MaxCalls /\ \E t \in SeqTimes : DoSetModTime(t)

NextSeq == SetModeAny \/ SetModTimeAny

SpecSeq == InitSeq /\ [][NextSeq]_vars

\* once SetMode has been called: ExternalAttrs is what one SetMode of the
\* last mode gives on a fresh header, the tag is Unix, the low byte of
\* CreatorVersion is the initial one
LastWriteWins ==
    lastMode # <<>> =>
        /\ fh.ExternalAttrs = SetMode(NewFileHeader(<<>>, {}), lastMode[1]).ExternalAttrs
        /\ Shr(fh.CreatorVersion, 8) = Bits(3)
        /\ fh.CreatorVersion \cap (0..7) = fh0.CreatorVersion \cap (0..7)

\* a SetMode step changes CreatorVersion and ExternalAttrs only, a
\* SetModTime step ModifiedDate and ModifiedTime only
Frame ==
    /\ op' = "SetMode" =>
          [fh' EXCEPT !.CreatorVersion = fh.CreatorVersion,
                      !.ExternalAttrs = fh.ExternalAttrs] = fh
    /\ op' = "SetModTime" =>
          [fh' EXCEPT !.ModifiedDate = fh.ModifiedDate,
                      !.ModifiedTime = fh.ModifiedTime] = fh

\* C10: after any sequence of SetMode and SetModTime calls that holds a
\* SetMode, ExternalAttrs is what a single SetMode with the last mode gives
\* on a fresh header, the high byte of CreatorVersion is 3 and its low byte
\* the initial one; SetMode changes no field but CreatorVersion and
\* ExternalAttrs, SetModTime none but ModifiedDate and ModifiedTime.
C10_LastWriteWins == [](LastWriteWins) /\ [][Frame]_vars

\* three calls on an NTFS header with every attribute bit set, the last a
\* SetModTime after a SetMode(0o644): the attributes are those of 0o644
C10_Witness ==
    /\ calls = 3
    /\ op = "SetModTime"
    /\ lastMode = <<Bits(420)>>
    /\ fh0.ExternalAttrs = 0..31
    /\ Shr(fh0.CreatorVersion, 8) = Bits(11)
    /\ fh.ExternalAttrs = Shl(sIFREG \cup Bits(420), 16, 32)
    /\ fh.CreatorVersion = Shl(Bits(3), 8, 16) \cup Bits(45)
    /\ fh.ModifiedDate # fh0.ModifiedDate

====
